---- MODULE Spec2Model ----
(***************************************************************************)
(* A model of weft's language front end: the precedence-climbing Parser    *)
(* (src/compiler/parse/Parser.ts) and the tree-walking Interpreter         *)
(* (src/compiler/Interpreter.ts).                                          *)
(*                                                                         *)
(* A run is: a token stream and an operator table are handed to            *)
(* Parser.parse, whose statement loop runs one iteration per step; the     *)
(* returned statements are handed to Interpreter.interpret together with   *)
(* a binding environment, whose statement loop runs one statement per      *)
(* step.  The recursive-descent functions and the recursive evaluator are  *)
(* recursive operators; a JavaScript exception is a result record whose    *)
(* st field names the exception's class.                                   *)
(***************************************************************************)
EXTENDS Integers, Sequences, FiniteSets, TLC

VARIABLES tokens, operators, current, statements, pstate,
          bindings, index, results, istate,
          errors, thrown, trace, ran, preseeded

vars == <<tokens, operators, current, statements, pstate,
          bindings, index, results, istate, errors, thrown, trace, ran, preseeded>>

(***************************************************************************)
(* Bounds of the explored inputs.                                          *)
(***************************************************************************)
MaxLen == 3       \* raw token streams: every stream of at most MaxLen tokens
MaxOps == 2       \* operator chains: at most MaxOps infix operators
MaxArgs == 3      \* application spines: at most MaxArgs arguments
MaxDepth == 1     \* parentheses wrapped around a spine prefix
MaxStmts == 3     \* statements of a binding program
MaxPrec == 1      \* table precedences range over 0..MaxPrec
MaxUnbound == 1   \* names left out of the pre-seeded environment

(***************************************************************************)
(* Tokens (../scan/Token, ../scan/TokenType).  A token has a type, its     *)
(* lexeme, and a half-open span from..to; the literal of a Number, String  *)
(* or CodeLiteral token is represented by its lexeme.                      *)
(***************************************************************************)
Sym(t, l) == [type |-> t, lexeme |-> l]

Token(t, l, p) == [type |-> t, lexeme |-> l, from |-> p, to |-> p + 1]

NoToken == [type |-> "None", lexeme |-> "", from |-> 0, to |-> 0]

\* The scanner's output for a sequence of symbols: one token per symbol,
\* spans in source order, and a final EOF token.
Scan(syms) ==
    [i \in 1..(Len(syms) + 1) |->
        IF i <= Len(syms) THEN Token(syms[i].type, syms[i].lexeme, i)
                          ELSE Token("EOF", "", i)]

(***************************************************************************)
(* Expr and Stmt constructors.                                             *)
(***************************************************************************)
Literal(value, token) == [type |-> "Literal", value |-> value, token |-> token]

List(items) == [type |-> "List", items |-> items]

Grouping(leftParen, expression, rightParen) ==
    [type |-> "Grouping", leftParen |-> leftParen,
     expression |-> expression, rightParen |-> rightParen]

Binary(left, operator, right, precedence) ==
    [type |-> "Binary", left |-> left, operator |-> operator,
     right |-> right, precedence |-> precedence]

Section(operator, expression, side) ==
    [type |-> "Section", operator |-> operator,
     expression |-> expression, side |-> side]

Variable(name) == [type |-> "Variable", name |-> name]

Application(left, right) == [type |-> "Application", left |-> left, right |-> right]

Empty == [type |-> "Empty"]

StmtExpression(expression) == [type |-> "Expression", expression |-> expression]

StmtBinding(name, args, initializer) ==
    [type |-> "Binding", name |-> name, args |-> args, initializer |-> initializer]

(***************************************************************************)
(* BaseParser: the cursor primitives.  The cursor c is 1-based.            *)
(***************************************************************************)
Peek(c) == tokens[c]

PeekNext(c) == IF c + 1 <= Len(tokens) THEN tokens[c + 1] ELSE tokens[Len(tokens)]

IsAtEnd(c) == Peek(c).type = "EOF"

Check(c, t) == ~IsAtEnd(c) /\ Peek(c).type = t

Advance(c) == IF IsAtEnd(c) THEN c ELSE c + 1

\* Results of the parsing functions.  st is "ok", or the class of what was
\* thrown: "ParseError", "Error" (a plain Error) or "String" (a thrown string).
POk(e, c) == [st |-> "ok", expr |-> e, cur |-> c, src |-> NoToken, msg |-> ""]

PThrow(cls, src, m, c) == [st |-> cls, expr |-> Empty, cur |-> c, src |-> src, msg |-> m]

Consume(c, t, m) ==
    IF Check(c, t) THEN POk(Empty, Advance(c))
                   ELSE PThrow("ParseError", Peek(c), m, c)

\* Skip to the next statement boundary: past the next LineBreak, or to EOF.
RECURSIVE SynchronizeFrom(_)
SynchronizeFrom(c) ==
    IF IsAtEnd(c) THEN c
    ELSE IF tokens[c - 1].type = "LineBreak" THEN c
    ELSE SynchronizeFrom(c + 1)

Synchronize(c) == IF IsAtEnd(c) THEN c ELSE SynchronizeFrom(c + 1)

\* expressionBounds (./Expr): the span of an expression, from its tokens.
RECURSIVE ExpressionBounds(_)
ExpressionBounds(e) ==
    CASE e.type = "Literal" -> [from |-> e.token.from, to |-> e.token.to]
      [] e.type = "Variable" -> [from |-> e.name.from, to |-> e.name.to]
      [] e.type = "Grouping" -> [from |-> e.leftParen.from, to |-> e.rightParen.to]
      [] e.type = "Binary" ->
            [from |-> ExpressionBounds(e.left).from, to |-> ExpressionBounds(e.right).to]
      [] e.type = "Application" ->
            [from |-> ExpressionBounds(e.left).from, to |-> ExpressionBounds(e.right).to]
      [] e.type = "Section" ->
            IF e.side = "left"
            THEN [from |-> e.operator.from, to |-> ExpressionBounds(e.expression).to]
            ELSE [from |-> ExpressionBounds(e.expression).from, to |-> e.operator.to]
      [] e.type = "List" ->
            IF e.items = <<>> THEN [from |-> 0, to |-> 0]
            ELSE [from |-> ExpressionBounds(e.items[1]).from,
                  to |-> ExpressionBounds(e.items[Len(e.items)]).to]
      [] OTHER -> [from |-> 0, to |-> 0]

(***************************************************************************)
(* The operator table (./API Operators): lexeme -> [precedence,            *)
(* associativity]; get() of a lexeme outside the table is undefined.       *)
(***************************************************************************)
OperatorsHas(lexeme) == lexeme \in DOMAIN operators

OperatorsGet(lexeme) == operators[lexeme]

(***************************************************************************)
(* Parser.ts: the recursive-descent functions.                             *)
(***************************************************************************)
RECURSIVE expression(_, _), expressionLoop(_, _, _), application(_),
          applicationLoop(_, _), grouping(_), functionTerm(_), listLoop(_, _)

\* Parser.peekFunctionTerm
peekFunctionTerm(c) ==
    Peek(c).type \in {"Identifier", "LeftParen", "LeftBracket", "Number", "String"}

\* The message of the empty-operand check of Parser.expression.
MissingMessage(lNull, rNull) ==
    IF lNull /\ rNull THEN "Missing expression before and after the operator"
    ELSE IF lNull THEN "Missing expression before the operator"
    ELSE "Missing expression after the operator"

\* RightPrecedence with the associativity ignored: every operator is
\* parsed as right-associative.
RightPrecedenceIgnoringAssociativity(opPrecedence, opAssociativity) == opPrecedence

\* The precedence handed to the recursive call for the right operand.
RightPrecedence(opPrecedence, opAssociativity) ==
    IF opAssociativity = "left" THEN opPrecedence + 1 ELSE opPrecedence

\* Parser.expression, the loop body once the right operand is parsed: the
\* empty-operand check, then the operator is associated and the loop goes on.
Associate(left, operator, opPrecedence, right, precedence) ==
    IF right.st # "ok" THEN right
    ELSE IF left.type = "Empty" \/ right.expr.type = "Empty"
    THEN PThrow("ParseError", operator,
                MissingMessage(left.type = "Empty", right.expr.type = "Empty"), right.cur)
    ELSE expressionLoop(Binary(left, operator, right.expr, opPrecedence),
                        right.cur, precedence)

\* The while loop of Parser.expression, with `left` parsed up to cursor c.
expressionLoop(left, c, precedence) ==
    IF Peek(c).type # "Operator" THEN POk(left, c)
    ELSE IF ~OperatorsHas(Peek(c).lexeme)
    THEN PThrow("ParseError", Peek(c), "Undefined operator", c)
    ELSE IF OperatorsGet(Peek(c).lexeme).precedence < precedence THEN POk(left, c)
    ELSE IF PeekNext(c).type = "RightParen" THEN POk(left, c)
    ELSE Associate(left, Peek(c), OperatorsGet(Peek(c).lexeme).precedence,
                   expression(Advance(c),
                       RightPrecedence(OperatorsGet(Peek(c).lexeme).precedence,
                                       OperatorsGet(Peek(c).lexeme).associativity)),
                   precedence)

\* Parser.expression after its first application term.
ExpressionFrom(left, precedence) ==
    IF left.st # "ok" THEN left
    ELSE expressionLoop(left.expr, left.cur, precedence)

\* Parser.expression
expression(c, precedence) == ExpressionFrom(application(c), precedence)

\* Parser.application, the loop body once the next term is parsed.
Apply(expr, right) ==
    IF right.st # "ok" THEN right
    ELSE applicationLoop(Application(expr, right.expr), right.cur)

\* The while loop of Parser.application.
applicationLoop(expr, c) ==
    IF ~peekFunctionTerm(c) THEN POk(expr, c)
    ELSE Apply(expr, grouping(c))

\* Parser.application after its first term.
ApplicationFrom(first) ==
    IF first.st # "ok" THEN first
    ELSE applicationLoop(first.expr, first.cur)

\* Parser.application
application(c) == ApplicationFrom(grouping(c))

\* SectionOf without the precedence check on a Binary operand.
SectionOfUnguarded(hasLeft, leftOp, hasRight, rightOp, expr, rightParen, c) ==
    IF hasLeft /\ hasRight
    THEN PThrow("ParseError", rightParen, "Expect expression.", c)
    ELSE IF ~OperatorsHas((IF hasLeft THEN leftOp ELSE rightOp).lexeme)
    THEN PThrow("ParseError", Peek(c), "Undefined operator", c)
    ELSE POk(Section(IF hasLeft THEN leftOp ELSE rightOp, expr,
                     IF hasLeft THEN "left" ELSE "right"), c)

\* The section branch of Parser.grouping: an operator on one side of expr.
\* c is the cursor after the right parenthesis.
SectionOf(hasLeft, leftOp, hasRight, rightOp, expr, rightParen, c) ==
    IF hasLeft /\ hasRight
    THEN PThrow("ParseError", rightParen, "Expect expression.", c)
    ELSE LET operator == IF hasLeft THEN leftOp ELSE rightOp
             side == IF hasLeft THEN "left" ELSE "right"
         IN  IF ~OperatorsHas(operator.lexeme)
             THEN PThrow("ParseError", Peek(c), "Undefined operator", c)
             ELSE IF expr.type = "Binary"
                     /\ expr.precedence < OperatorsGet(operator.lexeme).precedence
             THEN PThrow("ParseError", operator,
                         "Section operator must have lower precedence than expression", c)
             ELSE POk(Section(operator, expr, side), c)

\* Parser.grouping once the inner expression is parsed: the trailing
\* operator, the right parenthesis, and the section if an operator flanks it.
GroupingClose(leftParen, hasLeft, leftOp, inner) ==
    IF inner.st # "ok" THEN inner
    ELSE LET hasRight == Peek(inner.cur).type = "Operator"
             rightOp == Peek(inner.cur)
             c3 == IF hasRight THEN Advance(inner.cur) ELSE inner.cur
             close == Consume(c3, "RightParen", "Expect ')' after expression.")
             rightParen == Peek(c3)
             sec == SectionOf(hasLeft, leftOp, hasRight, rightOp,
                              inner.expr, rightParen, close.cur)
         IN  IF close.st # "ok" THEN close
             ELSE IF ~(hasLeft \/ hasRight)
             THEN POk(Grouping(leftParen, inner.expr, rightParen), close.cur)
             ELSE IF sec.st # "ok" THEN sec
             ELSE POk(Grouping(leftParen, sec.expr, rightParen), close.cur)

\* Parser.grouping
grouping(c) ==
    IF ~Check(c, "LeftParen") THEN functionTerm(c)
    ELSE LET leftParen == Peek(c)
             c1 == Advance(c)
             hasLeft == Peek(c1).type = "Operator"
             leftOp == Peek(c1)
             c2 == IF hasLeft THEN Advance(c1) ELSE c1
         IN  IF Check(c2, "RightParen")
             THEN IF hasLeft THEN POk(Variable(leftOp), Advance(c2))
                  ELSE PThrow("String", NoToken,
                         "Encountered unit literal, but unit isn't supported yet", Advance(c2))
             ELSE GroupingClose(leftParen, hasLeft, leftOp, expression(c2, 0))

\* The list loop of Parser.functionTerm once an item is parsed.
PushItem(items, item) ==
    IF item.st # "ok" THEN item
    ELSE listLoop(Append(items, item.expr), item.cur)

\* The list loop once the separating comma, if one is due, is consumed.
ListItem(items, comma) ==
    IF comma.st # "ok" THEN comma
    ELSE PushItem(items, expression(comma.cur, 0))

\* The while loop of the list literal in Parser.functionTerm.
listLoop(items, c) ==
    IF Check(c, "RightBracket") THEN POk(List(items), Advance(c))
    ELSE IF IsAtEnd(c) THEN PThrow("ParseError", Peek(c), "Unterminated list literal", c)
    ELSE ListItem(items, IF Len(items) > 0
                         THEN Consume(c, "Comma", "Expect ',' after list items")
                         ELSE POk(Empty, c))

\* Parser.functionTerm
functionTerm(c) ==
    IF Check(c, "Number") \/ Check(c, "String")
    THEN POk(Literal(Peek(c).lexeme, Peek(c)), Advance(c))
    ELSE IF Check(c, "Identifier") THEN POk(Variable(Peek(c)), Advance(c))
    ELSE IF Check(c, "LeftBracket") THEN listLoop(<<>>, Advance(c))
    ELSE POk(Empty, c)

\* Results of parseFunlhs: the name and argument tokens, or the expression
\* the ParseError is thrown with.
LhsOk(names) == [st |-> "ok", names |-> names, src |-> Empty]

LhsThrow(varExp) == [st |-> "ParseError", names |-> <<>>, src |-> varExp]

\* The Application case of Parser.parseFunlhs once the left spine is done.
FunlhsAppend(l, right) ==
    IF l.st # "ok" THEN l
    ELSE IF right.type = "Variable" THEN LhsOk(Append(l.names, right.name))
    ELSE LhsThrow(right)

\* Parser.parseFunlhs
RECURSIVE parseFunlhs(_)
parseFunlhs(expr) ==
    IF expr.type = "Application"
    THEN FunlhsAppend(parseFunlhs(expr.left), expr.right)
    ELSE IF expr.type = "Variable" THEN LhsOk(<<expr.name>>)
    ELSE LhsThrow(expr)

\* Results of declaration and statement: a statement, or what was thrown.
SOk(s, c) == [st |-> "ok", stmt |-> s, cur |-> c, src |-> NoToken, msg |-> ""]

SThrow(cls, src, m, c) ==
    [st |-> cls, stmt |-> StmtExpression(Empty), cur |-> c, src |-> src, msg |-> m]

\* The binding branch of Parser.declaration: e is followed by '='.
BindingOf(e, lhs) ==
    LET init == Consume(Advance(e.cur), "CodeLiteral",
            "Right-hand sign of an assignment variable must be foreign Javascript block")
    IN  IF lhs.st # "ok"
        THEN SThrow("ParseError", lhs.src,
                    "Expected variable on the left-hand side of assignment", e.cur)
        ELSE IF init.st # "ok" THEN SThrow(init.st, init.src, init.msg, init.cur)
        ELSE SOk(StmtBinding(Head(lhs.names), Tail(lhs.names), Peek(Advance(e.cur))),
                 init.cur)

\* Parser.declaration once its expression is parsed.
DeclarationOf(e) ==
    IF e.st # "ok" THEN SThrow(e.st, e.src, e.msg, e.cur)
    ELSE IF Peek(e.cur).type = "ColonColon"
    THEN SThrow("Error", NoToken, "Parsing type annotations isn't supported yet", e.cur)
    ELSE IF Peek(e.cur).type = "Equal" THEN BindingOf(e, parseFunlhs(e.expr))
    ELSE SOk(StmtExpression(e.expr), e.cur)

\* Parser.declaration
declaration(c) == DeclarationOf(expression(c, 0))

\* Parser.statement once its declaration is parsed.
StatementOf(d) ==
    IF d.st # "ok" THEN d
    ELSE IF IsAtEnd(d.cur) THEN d
    ELSE LET nl == Consume(d.cur, "LineBreak", "Expect new line after expression.")
         IN  IF nl.st # "ok" THEN SThrow(nl.st, nl.src, nl.msg, nl.cur)
             ELSE SOk(d.stmt, nl.cur)

\* Parser.statement
statement(c) == StatementOf(declaration(c))

\* What the catch block of Parser.parse hands to the reporter: the span of
\* the error's source (a token, or an expression through expressionBounds).
ParseReport(src, m) ==
    IF "from" \in DOMAIN src
    THEN [from |-> src.from, to |-> src.to, message |-> m]
    ELSE [from |-> ExpressionBounds(src).from, to |-> ExpressionBounds(src).to,
          message |-> m]

(***************************************************************************)
(* Interpreter.ts: values.  A pre-seeded built-in and a function compiled  *)
(* from a code literal are opaque callables: calling one yields the opaque *)
(* value Returned(callee, args).                                           *)
(***************************************************************************)
Undefined == [k |-> "undefined"]

Prim(v) == [k |-> "primitive", v |-> v]

ListValue(items) == [k |-> "list", items |-> items]

Host(name) == [k |-> "host", name |-> name]

\* new Function(...argNames, initializer.literal)
Compiled(argNames, code) == [k |-> "function", params |-> argNames, code |-> code]

Returned(callee, args) == [k |-> "returned", callee |-> callee, args |-> args]

\* The arrow function evaluate returns for a Section: it closes over expr.
SectionClosure(expr) == [k |-> "section", expr |-> expr]

\* The arrow function curry returns for an Application: it closes over
\* func and the already evaluated arg.
Curried(func, arg) == [k |-> "curried", func |-> func, arg |-> arg]

\* The body of the code literal RunnableCode returns an object with a
\* runIO method; every other code literal returns a plain value.
RunnableCode == "c2"

IsRunnable(v) ==
    /\ v.k = "returned"
    /\ v.callee.k = "function"
    /\ v.callee.code = RunnableCode

\* Results of evaluation.  st is "ok" or the class of the exception thrown:
\* "RuntimeError", "TypeError" or "Error".  trace lists, in execution order,
\* the literals evaluated, the names looked up in the environment and the
\* opaque callables called.
EOk(v, tr) == [st |-> "ok", val |-> v, tok |-> NoToken, msg |-> "", trace |-> tr]

EThrow(cls, tok, m, tr) == [st |-> cls, val |-> Undefined, tok |-> tok, msg |-> m, trace |-> tr]

After(tr, r) == [r EXCEPT !.trace = tr \o @]

LiteralEvent(token) == [e |-> "literal", tok |-> token]

LookupEvent(token, found, v) == [e |-> "lookup", tok |-> token, found |-> found, val |-> v]

CallEvent(callee, args) == [e |-> "call", callee |-> callee, args |-> args]

RECURSIVE evaluate(_), evaluateItems(_, _, _, _), curry(_), invoke(_, _),
          invokeSection(_, _)

\* The Variable case of Interpreter.evaluate.
evaluateVariable(expr) ==
    IF expr.name.lexeme \in DOMAIN bindings
    THEN EOk(bindings[expr.name.lexeme].value,
             <<LookupEvent(expr.name, TRUE, bindings[expr.name.lexeme].value)>>)
    ELSE EThrow("RuntimeError", expr.name, "Variable is undefined",
                <<LookupEvent(expr.name, FALSE, Undefined)>>)

\* The Binary case of Interpreter.evaluate, both operands evaluated.
BinaryOf(expr, left, right) ==
    IF left.st # "ok" THEN left
    ELSE IF right.st # "ok" THEN After(left.trace, right)
    ELSE IF expr.operator.lexeme \in DOMAIN bindings
    THEN After(left.trace \o right.trace
                 \o <<LookupEvent(expr.operator, TRUE, bindings[expr.operator.lexeme].value)>>,
               invoke(bindings[expr.operator.lexeme].value, <<left.val, right.val>>))
    ELSE EThrow("RuntimeError", expr.operator, "Operator isn't implemented",
                left.trace \o right.trace
                  \o <<LookupEvent(expr.operator, FALSE, Undefined)>>)

\* SectionArgs with the two sides exchanged.
SectionArgsSwapped(side, input, operand) ==
    IF side = "left" THEN <<operand, input>> ELSE <<input, operand>>

\* The arguments the Section's arrow function hands to the operator.
SectionArgs(side, input, operand) ==
    IF side = "left" THEN <<input, operand>> ELSE <<operand, input>>

\* The arrow function of the Section case once its operand is evaluated.
SectionCall(expr, input, operand) ==
    IF operand.st # "ok" THEN operand
    ELSE After(operand.trace,
               invoke(bindings[expr.operator.lexeme].value,
                      SectionArgs(expr.side, input, operand.val)))

\* The body of the arrow function of the Section case, called with input.
invokeSection(expr, input) ==
    IF expr.operator.lexeme \notin DOMAIN bindings
    THEN EThrow("TypeError", NoToken, "Cannot read properties of undefined",
                <<LookupEvent(expr.operator, FALSE, Undefined)>>)
    ELSE After(<<LookupEvent(expr.operator, TRUE, bindings[expr.operator.lexeme].value)>>,
               SectionCall(expr, input, evaluate(expr.expression)))

\* The Application case of Interpreter.evaluate: left(right).
ApplicationOf(left, right) ==
    IF left.st # "ok" THEN left
    ELSE IF right.st # "ok" THEN After(left.trace, right)
    ELSE After(left.trace \o right.trace, invoke(left.val, <<right.val>>))

\* items.map, item i evaluated.
CollectItem(items, i, vals, tr, item) ==
    IF item.st # "ok" THEN After(tr, item)
    ELSE evaluateItems(items, i + 1, Append(vals, item.val), tr \o item.trace)

\* expr.items.map((e) => this.evaluate(e)), from item i on.
evaluateItems(items, i, vals, tr) ==
    IF i > Len(items) THEN EOk(ListValue(vals), tr)
    ELSE CollectItem(items, i, vals, tr, evaluate(items[i]))

\* Interpreter.evaluate
evaluate(expr) ==
    CASE expr.type = "Literal" -> EOk(Prim(expr.value), <<LiteralEvent(expr.token)>>)
      [] expr.type = "List" -> evaluateItems(expr.items, 1, <<>>, <<>>)
      [] expr.type = "Grouping" -> evaluate(expr.expression)
      [] expr.type = "Binary" ->
            BinaryOf(expr, evaluate(expr.left), evaluate(expr.right))
      [] expr.type = "Section" -> EOk(SectionClosure(expr), <<>>)
      [] expr.type = "Variable" -> evaluateVariable(expr)
      [] expr.type = "Application" ->
            ApplicationOf(curry(expr.left), evaluate(expr.right))
      [] OTHER -> EOk(Undefined, <<>>)

\* The Application branch of Interpreter.curry, its argument evaluated.
CurryOf(func, arg) ==
    IF arg.st # "ok" THEN arg
    ELSE EOk(Curried(func, arg.val), arg.trace)

\* Interpreter.curry
curry(func) ==
    IF func.type \in {"Variable", "Section"} THEN evaluate(func)
    ELSE IF func.type = "Grouping" THEN curry(func.expression)
    ELSE IF func.type = "Application" THEN CurryOf(func, evaluate(func.right))
    ELSE EThrow("Error", NoToken, "Unexpected function", <<>>)

\* CurriedCall with the captured argument handed over last, not first.
CurriedCallArgLast(inner, arg, args) ==
    IF inner.st # "ok" THEN inner
    ELSE After(inner.trace, invoke(inner.val, args \o <<arg>>))

\* The arrow function curry returns, once curry(func.left) has returned.
CurriedCall(inner, arg, args) ==
    IF inner.st # "ok" THEN inner
    ELSE After(inner.trace, invoke(inner.val, <<arg>> \o args))

\* A JavaScript call callee(...args).
invoke(callee, args) ==
    CASE callee.k \in {"host", "function"} ->
            EOk(Returned(callee, args), <<CallEvent(callee, args)>>)
      [] callee.k = "section" ->
            invokeSection(callee.expr, IF args = <<>> THEN Undefined ELSE args[1])
      [] callee.k = "curried" ->
            CurriedCall(curry(callee.func.left), callee.arg, args)
      [] OTHER -> EThrow("TypeError", NoToken, "is not a function", <<>>)

\* args.map(({ lexeme }) => lexeme)
RECURSIVE Lexemes(_)
Lexemes(toks) == IF toks = <<>> THEN <<>> ELSE <<Head(toks).lexeme>> \o Lexemes(Tail(toks))

\* The value a Binding statement stores: the compiled function when it has
\* parameters, the result of calling it at once when it has none.
BindingValue(args, func) ==
    IF Len(args) > 0 THEN func ELSE Returned(func, <<>>)

\* Bind that keeps the entry a name already has: the first write wins.
BindFirstWins(env, lexeme, value) ==
    [n \in DOMAIN env \cup {lexeme} |->
        IF n \in DOMAIN env THEN env[n] ELSE [type |-> "", value |-> value]]

\* The environment after the Binding case of Interpreter.execute.
Bind(env, lexeme, value) ==
    [n \in DOMAIN env \cup {lexeme} |->
        IF n = lexeme THEN [type |-> "", value |-> value] ELSE env[n]]

\* Interpreter.execute: the result, and the environment it leaves.
execute(stmt) ==
    IF stmt.type = "Expression"
    THEN [r |-> evaluate(stmt.expression), env |-> bindings]
    ELSE IF stmt.initializer.type # "CodeLiteral"
    THEN [r |-> EThrow("Error", NoToken,
                       "Initializer doesn't contain a source code string", <<>>),
          env |-> bindings]
    ELSE LET func == Compiled(Lexemes(stmt.args), stmt.initializer.lexeme)
             value == BindingValue(stmt.args, func)
         IN  [r |-> EOk(Undefined,
                        IF Len(stmt.args) > 0 THEN <<>> ELSE <<CallEvent(func, <<>>)>>),
              env |-> Bind(bindings, stmt.name.lexeme, value)]

\* Interpreter.stringify; no value of the model is a Pattern.
Stringify(v) == IF v.k = "null" THEN "null" ELSE [rendered |-> v]

(***************************************************************************)
(* The inputs explored: token streams with an operator table, and the      *)
(* environments the host pre-seeds.                                        *)
(***************************************************************************)
Id(l) == Sym("Identifier", l)

Num == Sym("Number", "1")

Op(l) == Sym("Operator", l)

LP == Sym("LeftParen", "(")

RP == Sym("RightParen", ")")

NL == Sym("LineBreak", "")

Code(l) == Sym("CodeLiteral", l)

\* The operators the tables define; "%" is an operator no table defines.
OpLexemes == {"+", "*"}

PrecLevels == 0..MaxPrec

Tables ==
    [OpLexemes -> [precedence : PrecLevels, associativity : {"left", "right"}]]

DefaultTable ==
    [l \in OpLexemes |->
        [precedence |-> IF l = "*" THEN MaxPrec ELSE 0, associativity |-> "left"]]

Operands == {Id("x"), Num}

Ops == {Op(l) : l \in OpLexemes}

\* Every sequence over S of length at most n.
SeqsUpTo(S, n) == UNION {[1..k -> S] : k \in 0..n}

Alphabet ==
    {Id("x"), Num, Sym("String", "s"), Op("+"), Op("%"), LP, RP,
     Sym("LeftBracket", "["), Sym("RightBracket", "]"), Sym("Comma", ","),
     Sym("Equal", "="), Sym("ColonColon", "::"), Code("c1"), NL}

\* Raw streams: every token stream of at most MaxLen tokens.
RawStreams == SeqsUpTo(Alphabet, MaxLen)

\* Operator chains: operand (op operand)^k, k <= MaxOps.
Chain(operands, ops) ==
    [i \in 1..(2 * Len(ops) + 1) |->
        IF i % 2 = 1 THEN operands[(i + 1) \div 2] ELSE ops[i \div 2]]

Chains ==
    UNION {{Chain(a, o) : a \in [1..(k + 1) -> Operands], o \in [1..k -> Ops]} :
           k \in 0..MaxOps}

\* Sections: ( op e ) and ( e op ), alone or applied to an operand; e is an
\* operand, a binary expression, or a parenthesized binary expression.
SectionOperands ==
    {<<a>> : a \in Operands}
    \cup {<<Id("x"), o, Num>> : o \in Ops}
    \cup {<<LP, Id("x"), o, Num, RP>> : o \in Ops}

SectionForms ==
    {<<LP, o>> \o e \o <<RP>> : o \in Ops, e \in SectionOperands}
    \cup {<<LP>> \o e \o <<o, RP>> : o \in Ops, e \in SectionOperands}

SectionStreams ==
    SectionForms \cup {s \o <<y>> : s \in SectionForms, y \in Operands}

\* Application spines: f a1 ... an, n <= MaxArgs, with the prefixes whose
\* length is in W wrapped in d pairs of parentheses.
Parens(sym, d) == [i \in 1..d |-> sym]

RECURSIVE Spine(_, _, _, _)
Spine(args, n, W, d) ==
    IF n = 0 THEN <<Id("f")>>
    ELSE LET s == Spine(args, n - 1, W, d) \o <<args[n]>>
         IN  IF n \in W THEN Parens(LP, d) \o s \o Parens(RP, d) ELSE s

Spines ==
    UNION {{Spine(a, n, W, d) : a \in [1..n -> Operands], W \in SUBSET (1..n),
                                d \in 1..MaxDepth} : n \in 1..MaxArgs}

\* Binding programs: at most MaxStmts lines, each a binding or a use.
BindingLines ==
    {<<Id("x"), Sym("Equal", "="), Code("c1")>>,
     <<Id("x"), Sym("Equal", "="), Code("c2")>>,
     <<Id("f"), Id("x"), Sym("Equal", "="), Code("c1")>>,
     <<Id("x")>>,
     <<Id("f"), Id("x")>>}

RECURSIVE JoinLines(_)
JoinLines(lines) ==
    IF Len(lines) = 1 THEN lines[1]
    ELSE lines[1] \o <<NL>> \o JoinLines(Tail(lines))

BindingPrograms ==
    {JoinLines(ls) : ls \in UNION {[1..k -> BindingLines] : k \in 1..MaxStmts}}

Inputs ==
    {[syms |-> s, table |-> DefaultTable] :
        s \in RawStreams \cup Spines \cup BindingPrograms}
    \cup {[syms |-> s, table |-> t] : s \in Chains \cup SectionStreams, t \in Tables}

\* The names the host may pre-seed, and the environments it hands over:
\* every name bound but at most MaxUnbound of them.
Names == {"f", "x", "+", "*"}

SeedValue(n) == IF n = "x" THEN Prim("seeded") ELSE Host(n)

Seeds ==
    {[n \in S |-> [type |-> "", value |-> SeedValue(n)]] :
        S \in {T \in SUBSET Names : Cardinality(Names \ T) <= MaxUnbound}}

(***************************************************************************)
(* The state machine.                                                      *)
(***************************************************************************)
Init ==
    /\ \E in \in Inputs :
          /\ tokens = Scan(in.syms)
          /\ operators = in.table
    /\ current = 1
    /\ statements = <<>>
    /\ pstate = "parsing"
    /\ bindings = <<>>
    /\ index = 0
    /\ results = <<>>
    /\ istate = "idle"
    /\ errors = <<>>
    /\ thrown = "none"
    /\ trace = <<>>
    /\ ran = 0
    /\ preseeded = <<>>

interpreterVars == <<bindings, index, results, istate, trace, ran, preseeded>>

parserVars == <<tokens, operators, current, statements, pstate>>

\* Parser.parse, one iteration of the loop: an empty line is skipped.
ParseLineBreak ==
    /\ pstate = "parsing"
    /\ ~IsAtEnd(current)
    /\ Check(current, "LineBreak")
    /\ current' = Advance(current)
    /\ UNCHANGED <<tokens, operators, statements, pstate, errors, thrown>>
    /\ UNCHANGED interpreterVars

\* The try/catch of Parser.parse around statement(): the statement is
\* kept, or a ParseError is reported and parse returns, or what was thrown
\* escapes parse.
StatementOutcome(s) ==
    CASE s.st = "ok" ->
            /\ statements' = Append(statements, s.stmt)
            /\ current' = s.cur
            /\ UNCHANGED <<pstate, errors, thrown>>
      [] s.st = "ParseError" ->
            /\ errors' = Append(errors, [by |-> "Parser"] @@ ParseReport(s.src, s.msg))
            /\ current' = Synchronize(s.cur)
            /\ pstate' = "returned"
            /\ UNCHANGED <<statements, thrown>>
      [] OTHER ->
            /\ pstate' = "threw"
            /\ thrown' = s.st
            /\ current' = s.cur
            /\ UNCHANGED <<statements, errors>>

\* Parser.parse, one iteration of the loop on a token that starts a statement.
ParseStatement ==
    /\ pstate = "parsing"
    /\ ~IsAtEnd(current)
    /\ ~Check(current, "LineBreak")
    /\ StatementOutcome(statement(current))
    /\ UNCHANGED <<tokens, operators>>
    /\ UNCHANGED interpreterVars

\* Parser.parse: the loop ends at the end of the tokens.
ParseReturn ==
    /\ pstate = "parsing"
    /\ IsAtEnd(current)
    /\ pstate' = "returned"
    /\ UNCHANGED <<tokens, operators, current, statements, errors, thrown>>
    /\ UNCHANGED interpreterVars

\* The host constructs the Interpreter over its environment and calls
\* interpret with the statements parse returned.
InterpretStart ==
    /\ pstate = "returned"
    /\ istate = "idle"
    /\ \E seed \in Seeds : bindings' = seed /\ preseeded' = seed
    /\ istate' = "running"
    /\ index' = 1
    /\ results' = <<>>
    /\ UNCHANGED <<trace, ran, errors, thrown>>
    /\ UNCHANGED parserVars

\* The body of the loop of Interpreter.interpret once execute has run: the
\* result is run or recorded, or a RuntimeError is reported and interpret
\* returns, or what was thrown escapes interpret.
ExecuteOutcome(x) ==
    /\ trace' = x.r.trace
    /\ CASE x.r.st = "ok" ->
            /\ bindings' = x.env
            /\ index' = index + 1
            /\ IF IsRunnable(x.r.val)
               THEN ran' = ran + 1 /\ UNCHANGED results
               ELSE IF x.r.val # Undefined
               THEN results' = Append(results, Stringify(x.r.val)) /\ UNCHANGED ran
               ELSE UNCHANGED <<results, ran>>
            /\ UNCHANGED <<istate, errors, thrown>>
         [] x.r.st = "RuntimeError" ->
            /\ errors' = Append(errors,
                  [by |-> "Interpreter", from |-> x.r.tok.from,
                   to |-> x.r.tok.to, message |-> x.r.msg])
            /\ istate' = "returned"
            /\ UNCHANGED <<bindings, index, results, ran, thrown>>
         [] OTHER ->
            /\ istate' = "threw"
            /\ thrown' = x.r.st
            /\ UNCHANGED <<bindings, index, results, ran, errors>>

\* Interpreter.interpret, one iteration of the loop.
InterpretStatement ==
    /\ istate = "running"
    /\ index <= Len(statements)
    /\ ExecuteOutcome(execute(statements[index]))
    /\ UNCHANGED <<parserVars, preseeded>>

\* Interpreter.interpret: the loop ends after the last statement.
InterpretReturn ==
    /\ istate = "running"
    /\ index > Len(statements)
    /\ istate' = "returned"
    /\ UNCHANGED <<bindings, index, results, trace, ran, errors, thrown, preseeded>>
    /\ UNCHANGED parserVars

Next ==
    \/ ParseLineBreak
    \/ ParseStatement
    \/ ParseReturn
    \/ InterpretStart
    \/ InterpretStatement
    \/ InterpretReturn

Spec == Init /\ [][Next]_vars

(***************************************************************************)
(* Properties of the parser.                                               *)
(***************************************************************************)
\* What the parser, and what the interpreter, handed to the reporter.
ReportedByParser(r) == r.by = "Parser"

ReportedByInterpreter(r) == r.by = "Interpreter"

ParserErrors == SelectSeq(errors, ReportedByParser)

InterpreterErrors == SelectSeq(errors, ReportedByInterpreter)

\* The number of tokens before EOF.
NTokens == Len(tokens) - 1

\* The types of the tokens before EOF.
TokenTypes == [i \in 1..NTokens |-> tokens[i].type]

IsOperand(t) == t.type \in {"Identifier", "Number", "String"}

IsTableOperator(t) == t.type = "Operator" /\ t.lexeme \in DOMAIN operators

PrecedenceAt(i) == operators[tokens[i].lexeme].precedence

AssociativityAt(i) == operators[tokens[i].lexeme].associativity

\* The stream is operand (op operand)^k with every op in the table.
IsChainStream ==
    /\ NTokens % 2 = 1
    /\ \A i \in 1..NTokens :
          IF i % 2 = 1 THEN IsOperand(tokens[i]) ELSE IsTableOperator(tokens[i])

\* Operators of one precedence level share their associativity.
ConsistentChain ==
    \A i, j \in {n \in 1..NTokens : n % 2 = 0} :
        PrecedenceAt(i) = PrecedenceAt(j) => AssociativityAt(i) = AssociativityAt(j)

OperandNode(t) == IF t.type = "Identifier" THEN Variable(t) ELSE Literal(t.lexeme, t)

SetMax(S) == CHOOSE m \in S : \A n \in S : n <= m

SetMin(S) == CHOOSE m \in S : \A n \in S : m <= n

\* The tree the table dictates for tokens lo..hi of a chain: its root is the
\* weakest operator, the last one of its level when the level associates
\* to the left and the first one when it associates to the right.
RECURSIVE TableTree(_, _)
TableTree(lo, hi) ==
    IF lo = hi THEN OperandNode(tokens[lo])
    ELSE LET ops == {i \in lo..hi : i % 2 = 0}
             weakest == SetMin({PrecedenceAt(i) : i \in ops})
             level == {i \in ops : PrecedenceAt(i) = weakest}
             root == IF AssociativityAt(SetMin(level)) = "left"
                     THEN SetMax(level) ELSE SetMin(level)
         IN  Binary(TableTree(lo, root - 1), tokens[root],
                    TableTree(root + 1, hi), weakest)

\* C1: a chain of operands separated by infix operators parses to the Binary
\* tree the table dictates: higher precedence binds tighter, a left-
\* associative level groups to the left, a right-associative one to the right.
C1_TableDictatesTree ==
    (pstate = "returned" /\ IsChainStream /\ ConsistentChain) =>
        /\ ParserErrors = <<>>
        /\ statements = <<StmtExpression(TableTree(1, NTokens))>>

\* C1 witness: a + b * c with * of higher precedence parsed as a + (b * c).
C1_Witness ==
    /\ pstate = "returned"
    /\ IsChainStream
    /\ ConsistentChain
    /\ NTokens = 5
    /\ PrecedenceAt(4) > PrecedenceAt(2)
    /\ Len(statements) = 1
    /\ statements[1].expression.type = "Binary"
    /\ statements[1].expression.operator = tokens[2]
    /\ statements[1].expression.right.type = "Binary"

\* The stream is ( op a op' b ): a left section of an unparenthesized
\* binary expression.
IsSectionOfBinary ==
    /\ TokenTypes \in {<<"LeftParen", "Operator", a, "Operator", b, "RightParen">> :
                          a, b \in {"Identifier", "Number", "String"}}
    /\ IsTableOperator(tokens[2])
    /\ IsTableOperator(tokens[4])

\* The stream is ( op ( a op' b ) ): the operand is parenthesized.
IsSectionOfGroupedBinary ==
    /\ TokenTypes \in {<<"LeftParen", "Operator", "LeftParen", a, "Operator", b,
                         "RightParen", "RightParen">> :
                          a, b \in {"Identifier", "Number", "String"}}
    /\ IsTableOperator(tokens[2])
    /\ IsTableOperator(tokens[5])

\* parse returned no statement and reported one syntax error.
SectionRejected ==
    /\ pstate = "returned"
    /\ statements = <<>>
    /\ Len(ParserErrors) = 1

\* parse returned one statement, a Grouping around a Section, and no error.
SectionAccepted ==
    /\ pstate = "returned"
    /\ ParserErrors = <<>>
    /\ Len(statements) = 1
    /\ statements[1].type = "Expression"
    /\ statements[1].expression.type = "Grouping"
    /\ statements[1].expression.expression.type = "Section"

ParseEnded == pstate \in {"returned", "threw"}

\* C4 as stated: ( op ( a + b ) ) is rejected when op's precedence is
\* strictly greater than +'s and accepted otherwise.
C4_GroupedOperandGuarded ==
    (ParseEnded /\ IsSectionOfGroupedBinary) =>
        IF PrecedenceAt(2) > PrecedenceAt(5) THEN SectionRejected ELSE SectionAccepted

\* C4 amended: ( op a + b ), the operand unparenthesized, is rejected when
\* op's precedence is strictly greater than +'s and accepted otherwise;
\* ( op ( a + b ) ) is accepted whatever the precedences.
C4_SectionPrecedenceGuard ==
    /\ (ParseEnded /\ IsSectionOfBinary) =>
          IF PrecedenceAt(2) > PrecedenceAt(4) THEN SectionRejected ELSE SectionAccepted
    /\ (ParseEnded /\ IsSectionOfGroupedBinary) => SectionAccepted

\* C4 witness: ( op a + b ) with op of higher precedence, rejected.
C4_Witness ==
    /\ IsSectionOfBinary
    /\ PrecedenceAt(2) > PrecedenceAt(4)
    /\ SectionRejected
    /\ ParserErrors[1].from = tokens[2].from

\* C5: no syntax error escapes parse as an exception, and parse reports at
\* most one error.
C5_SyntaxErrorsReportedNotThrown ==
    /\ pstate # "threw"
    /\ Len(ParserErrors) <= 1

RECURSIVE ContainsEmpty(_)
ContainsEmpty(e) ==
    CASE e.type = "Empty" -> TRUE
      [] e.type = "List" -> \E i \in 1..Len(e.items) : ContainsEmpty(e.items[i])
      [] e.type \in {"Grouping", "Section"} -> ContainsEmpty(e.expression)
      [] e.type \in {"Binary", "Application"} ->
            ContainsEmpty(e.left) \/ ContainsEmpty(e.right)
      [] OTHER -> FALSE

\* C10: no statement that parse returns holds an Empty node anywhere in its tree.
C10_NoEmptyInStatements ==
    \A i \in 1..Len(statements) :
        statements[i].type = "Expression" => ~ContainsEmpty(statements[i].expression)

(***************************************************************************)
(* Properties of the interpreter.  trace holds the events of the statement *)
(* interpret executed last.                                                *)
(***************************************************************************)
\* interpret stopped on the statement at index: it threw there.
Failed == istate \in {"returned", "threw"} /\ index <= Len(statements)

\* The statement executed last, and whether one was executed at all.
LastIndex == IF Failed THEN index ELSE index - 1

HasExecuted == istate # "idle" /\ LastIndex >= 1

LastOk == HasExecuted /\ ~Failed

LastExpr == statements[LastIndex].expression

LastIsExpression == HasExecuted /\ statements[LastIndex].type = "Expression"

\* The left spine of an application, through parentheses: its base and its
\* arguments in source order.
RECURSIVE SpineBase(_)
SpineBase(e) ==
    CASE e.type = "Application" -> SpineBase(e.left)
      [] e.type = "Grouping" -> SpineBase(e.expression)
      [] OTHER -> e

RECURSIVE SpineArguments(_)
SpineArguments(e) ==
    CASE e.type = "Application" -> Append(SpineArguments(e.left), e.right)
      [] e.type = "Grouping" -> SpineArguments(e.expression)
      [] OTHER -> <<>>

\* An argument whose evaluation calls nothing, and its value.
RECURSIVE CallFree(_)
CallFree(e) ==
    CASE e.type \in {"Literal", "Variable"} -> TRUE
      [] e.type = "Grouping" -> CallFree(e.expression)
      [] OTHER -> FALSE

RECURSIVE ArgumentValue(_)
ArgumentValue(e) ==
    CASE e.type = "Literal" -> Prim(e.value)
      [] e.type = "Variable" -> bindings[e.name.lexeme].value
      [] OTHER -> ArgumentValue(e.expression)

IsLeaf(e) == e.type \in {"Literal", "Variable"}

LeafToken(e) == IF e.type = "Literal" THEN e.token ELSE e.name

\* f a1 ... an, n >= 1, f a name, any prefix parenthesized.
IsNameSpine(e) ==
    /\ SpineBase(e).type = "Variable"
    /\ Len(SpineArguments(e)) >= 1
    /\ \A i \in 1..Len(SpineArguments(e)) : CallFree(SpineArguments(e)[i])

IsCall(ev) == ev.e = "call"

CallsOf(tr) == SelectSeq(tr, IsCall)

\* C2: a spine f a1 ... an, any of its prefixes parenthesized, calls the
\* value bound to f exactly once, with (a1, ..., an) in source order; f is
\* never called on a shorter argument list, also when the evaluation fails.
C2_SpineCalledOnce ==
    (LastIsExpression /\ IsNameSpine(LastExpr)) =>
        LET f == SpineBase(LastExpr).name.lexeme
            args == SpineArguments(LastExpr)
        IN  IF LastOk
            THEN CallsOf(trace) =
                    <<CallEvent(bindings[f].value,
                                [i \in 1..Len(args) |-> ArgumentValue(args[i])])>>
            ELSE CallsOf(trace) = <<>>

\* C2 witness: (f a) b c evaluated: one call, of three arguments.
C2_Witness ==
    /\ LastOk
    /\ LastIsExpression
    /\ IsNameSpine(LastExpr)
    /\ Len(SpineArguments(LastExpr)) = 3
    /\ tokens[1].type = "LeftParen"
    /\ LastExpr.type = "Application"
    /\ Len(CallsOf(trace)) = 1
    /\ Len(CallsOf(trace)[1].args) = 3

\* ( op X ) Y or ( X op ) Y: a section applied to an operand.
IsAppliedSection(e) ==
    /\ e.type = "Application"
    /\ e.left.type = "Grouping"
    /\ e.left.expression.type = "Section"

\* The Binary the applied section stands for.
BinaryFor(e) ==
    IF e.left.expression.side = "left"
    THEN Binary(e.right, e.left.expression.operator, e.left.expression.expression, 0)
    ELSE Binary(e.left.expression.expression, e.left.expression.operator, e.right, 0)

\* C3: with op bound and both operands evaluating to values, a left section
\* of x applied to y gives the value of Binary(y, op, x), a right section of
\* x applied to y the value of Binary(x, op, y).
C3_SectionIsBinary ==
    (/\ LastIsExpression
     /\ IsAppliedSection(LastExpr)
     /\ LastExpr.left.expression.operator.lexeme \in DOMAIN bindings
     /\ evaluate(LastExpr.left.expression.expression).st = "ok"
     /\ evaluate(LastExpr.right).st = "ok") =>
        /\ LastOk
        /\ evaluate(BinaryFor(LastExpr)).st = "ok"
        /\ results = <<Stringify(evaluate(BinaryFor(LastExpr)).val)>>

\* C3 witness: ( op x ) 1 evaluated to op's result on (1, x).
C3_Witness ==
    /\ LastOk
    /\ LastIsExpression
    /\ IsAppliedSection(LastExpr)
    /\ LastExpr.left.expression.side = "left"
    /\ LastExpr.left.expression.expression.type = "Variable"
    /\ LastExpr.right.type = "Literal"
    /\ Len(results) = 1
    /\ results[1].rendered.k = "returned"
    /\ results[1].rendered.args = <<Prim("1"), bindings["x"].value>>

IsFailedLookup(ev) == ev.e = "lookup" /\ ~ev.found

\* C6: when the evaluation of a statement uses a name or an operator that is
\* not bound, interpret reports exactly one error, with that token's span,
\* stops at that statement, and returns normally.
C6_UnboundNameReported ==
    \A i \in 1..Len(trace) :
        IsFailedLookup(trace[i]) =>
            /\ istate = "returned"
            /\ Failed
            /\ Len(InterpreterErrors) = 1
            /\ InterpreterErrors[1].from = trace[i].tok.from
            /\ InterpreterErrors[1].to = trace[i].tok.to

\* The value a Binding statement stores under its name.
StoredBy(stmt) ==
    IF stmt.args = <<>>
    THEN Returned(Compiled(<<>>, stmt.initializer.lexeme), <<>>)
    ELSE Compiled([i \in 1..Len(stmt.args) |-> stmt.args[i].lexeme],
                  stmt.initializer.lexeme)

\* The Binding statements for a name before statement m.
BindingsBefore(lexeme, m) ==
    {i \in 1..(m - 1) :
        statements[i].type = "Binding" /\ statements[i].name.lexeme = lexeme}

\* C7: a reference to a name at statement m sees the value of the latest
\* Binding for it among statements 1..m-1, or the pre-seeded value when
\* there is none; a Binding adds nothing to the results.
C7_LastBindingWins ==
    HasExecuted =>
        /\ \A i \in 1..Len(trace) :
              trace[i].e = "lookup" =>
                  LET before == BindingsBefore(trace[i].tok.lexeme, LastIndex)
                  IN  IF before = {}
                      THEN /\ trace[i].found <=> trace[i].tok.lexeme \in DOMAIN preseeded
                           /\ trace[i].found =>
                                 trace[i].val = preseeded[trace[i].tok.lexeme].value
                      ELSE /\ trace[i].found
                           /\ trace[i].val = StoredBy(statements[SetMax(before)])
        /\ Len(results) + ran <=
              Cardinality({i \in 1..LastIndex : statements[i].type = "Expression"})

\* C7 witness: x = c1, x = c2, x: the third statement sees c2's value.
C7_Witness ==
    /\ LastOk
    /\ LastIndex = 3
    /\ statements[1].type = "Binding"
    /\ statements[2].type = "Binding"
    /\ statements[1].name.lexeme = "x"
    /\ statements[2].name.lexeme = "x"
    /\ statements[1].initializer.lexeme # statements[2].initializer.lexeme
    /\ statements[3] = StmtExpression(Variable(tokens[9]))
    /\ tokens[9].lexeme = "x"
    /\ Len(trace) = 1
    /\ trace[1].val = StoredBy(statements[2])
    /\ "x" \in DOMAIN preseeded

\* The tokens of the operands evaluated, in evaluation order: the literal
\* and lookup events other than the lookup of the spine's base.
IsOperandEvent(ev) ==
    ev.e \in {"literal", "lookup"} /\ ev.tok # SpineBase(LastExpr).name

OperandEvents == SelectSeq(trace, IsOperandEvent)

\* f a1 ... an with f bound and every ai a literal or a name.
IsLeafSpine(e) ==
    /\ IsNameSpine(e)
    /\ SpineBase(e).name.lexeme \in DOMAIN bindings
    /\ \A i \in 1..Len(SpineArguments(e)) : IsLeaf(SpineArguments(e)[i])

UnboundOperands(e) ==
    {i \in 1..Len(SpineArguments(e)) :
        /\ SpineArguments(e)[i].type = "Variable"
        /\ SpineArguments(e)[i].name.lexeme \notin DOMAIN bindings}

\* C8: the operands of a spine are evaluated once each, left to right, and
\* the error reported is that of the leftmost failing operand.
C8_OperandsLeftToRight ==
    (LastIsExpression /\ IsLeafSpine(LastExpr)) =>
        LET args == SpineArguments(LastExpr)
        IN  /\ Len(OperandEvents) <= Len(args)
            /\ \A i \in 1..Len(OperandEvents) :
                  OperandEvents[i].tok = LeafToken(args[i])
            /\ LastOk => Len(OperandEvents) = Len(args)
            /\ UnboundOperands(LastExpr) # {} =>
                  /\ Len(InterpreterErrors) = 1
                  /\ InterpreterErrors[1].from =
                        LeafToken(args[SetMin(UnboundOperands(LastExpr))]).from

\* ( op X ) or ( X op ), X a literal or a name, alone or applied.
SectionIn(e) ==
    IF e.type = "Application" THEN e.left.expression ELSE e.expression

HasLeafSection(e) ==
    /\ \/ e.type = "Grouping" /\ e.expression.type = "Section"
       \/ IsAppliedSection(e)
    /\ IsLeaf(SectionIn(e).expression)

IsSectionOperandEvent(ev) ==
    ev.e \in {"literal", "lookup"} /\ ev.tok = LeafToken(SectionIn(LastExpr).expression)

\* C9: evaluating a Section evaluates its operand exactly once, when the
\* section is created, invoked or not.
C9_SectionOperandEvaluatedOnce ==
    (LastIsExpression /\ HasLeafSection(LastExpr)) =>
        Len(SelectSeq(trace, IsSectionOperandEvent)) = 1

====
